---- MODULE Spec2Model ----
(***************************************************************************)
(* Model of the SBOM enrichment pipeline of sbom-harbor:                   *)
(*   cyclonedx/api.py                      dt_interface_handler            *)
(*   cyclonedx/clients/dependency_track/dependency_track.py                *)
(*                                         credential bootstrap/rotation   *)
(*                                         and the Dependency Track calls  *)
(*                                                                         *)
(* Every run of dt_interface_handler is a process.  A process takes one    *)
(* step per external interaction (SSM, S3, or an HTTP request to           *)
(* Dependency Track) together with the local code that follows it up to    *)
(* the next interaction.  Nested calls are kept on a stack of return       *)
(* labels, locals in one record per run.                                   *)
(***************************************************************************)
EXTENDS Integers, Sequences, FiniteSets, TLC

(***************************************************************************)
(* Bounds                                                                  *)
(***************************************************************************)
\* number of keys Dependency Track will mint by rotation
MaxKeys == 3
\* largest number of "processing: true" answers before a job is ready
MaxProcessing == 2
\* number of injected failures (error response, lost connection, AWS error)
MaxFaults == 1
\* number of tokens a team starts with
MaxTokens == 3

Runs == {"r1", "r2"}
Buckets == {"sboms"}
SbomKeys == {"sbom-abc", "sbom-xyz"}

(***************************************************************************)
(* Program constants                                                       *)
(***************************************************************************)
DT_DEFAULT_ADMIN_PWD == <<"admin", 0>>
EMPTY_VALUE == <<"EMPTY", 0>>
DT_API_KEY == "DT_API_KEY"
DT_ROOT_PWD == "DT_ROOT_PWD"
SBOM_BUCKET_NAME_KEY == "sbom.bucket.name"
SBOM_S3_KEY == "sbom.s3.key"

\* (seeded fault : one permission is left out of the list)
permissions_without_upload ==
  << "ACCESS_MANAGEMENT", "POLICY_MANAGEMENT", "POLICY_VIOLATION_ANALYSIS",
     "PORTFOLIO_MANAGEMENT", "SYSTEM_CONFIGURATION",
     "VIEW_PORTFOLIO", "VIEW_VULNERABILITY", "VULNERABILITY_ANALYSIS" >>
\* the permissions list of __set_team_permissions
permissions ==
  << "ACCESS_MANAGEMENT", "POLICY_MANAGEMENT", "POLICY_VIOLATION_ANALYSIS",
     "PORTFOLIO_MANAGEMENT", "PROJECT_CREATION_UPLOAD", "SYSTEM_CONFIGURATION",
     "VIEW_PORTFOLIO", "VIEW_VULNERABILITY", "VULNERABILITY_ANALYSIS" >>

(***************************************************************************)
(* Values                                                                  *)
(***************************************************************************)
\* ssm.exceptions.ParameterNotFound
ParameterNotFound == <<"ParameterNotFound", 0>>
\* a local that holds nothing (dead or not yet assigned)
NoValue == <<"none", 0>>
\* (seeded fault : the new password is the default password again)
Uuid4_default_again(n) == <<"admin", 0>>
\* str(uuid4()) : the n-th password minted by __change_dt_root_pwd
Uuid4(n) == <<"uuid", n>>
\* the n-th API key known to Dependency Track
ApiKey(n) == <<"key", n>>
\* response.text of a successful login / of a rejected login
GoodJwt == <<"jwt", 1>>
BadJwt == <<"text", 0>>

VARIABLES
  pc,          \* [Runs -> label] : the next external interaction of the run
  stack,       \* [Runs -> Seq(label)] : return labels of the pending calls
  loc,         \* [Runs -> record] : local variables of the run
  err,         \* [Runs -> record] : the exception that ended the run
  event,       \* [Runs -> record] : body of the queue message of the run
  ssm,         \* Parameter Store : [name -> value]
  s3,          \* blob store : [<<bucket, key>> -> body]
  dtPwd,       \* Dependency Track : admin password
  dtTeams,     \* Dependency Track : teams with their API keys, permissions
  dtProjects,  \* Dependency Track : projects ever created
  dtKeys,      \* Dependency Track : number of keys minted by rotation
  dtMode,      \* Dependency Track : "honest" or one of the stubs
  pwds,        \* number of passwords minted by uuid4
  faults,      \* failures still to be injected
  phase,       \* [Runs -> step] : last orchestration step the run issued
  calls,       \* [Runs -> record] : requests the run has issued so far
  records,     \* bucket notifications not yet handled : set of <<bucket, key>>
  notified,    \* objects the bucket has raised a notification for
  queue,       \* enrichment queue : messages sent and not yet delivered
  tokens,      \* Team table : the "tokens" list of the team
  handlers     \* [Handlers -> record] : the token requests being served

vars == << pc, stack, loc, err, event, ssm, s3, dtPwd, dtTeams, dtProjects,
           dtKeys, dtMode, pwds, faults, phase, calls, records, notified,
           queue, tokens, handlers >>

runVars == << pc, stack, loc, err >>
dtVars == << dtPwd, dtTeams, dtProjects, dtKeys >>
ingressVars == << records, notified, queue >>
tokenVars == << tokens, handlers >>
envVars == << event, dtMode, ingressVars, tokenVars >>


(***************************************************************************)
(* Pure helpers of the program                                             *)
(***************************************************************************)
\* sbom.decode("utf-8") : the document carried by the stored bytes
Decode(body) == IF Len(body) = 3 /\ body[1] = "utf-8" THEN <<body[2], body[3]>>
                ELSE <<>>
\* (seeded fault : nothing is written)
Dumps_nothing(obj) == <<>>
\* bytearray(dumps(obj), "utf-8") : the bytes that carry a JSON value
Dumps(obj) == <<"utf-8">> \o obj
\* (seeded fault : the findings are written over the SBOM itself)
FindingsKey_same_key(key) == key
\* findings_key = f"findings-{s3_info[SBOM_S3_KEY]}"
FindingsKey(key) == "findings-" \o key
\* (seeded fault : the stored value is never used)
NeedsProvisioning_always(value) == TRUE
\* EMPTY_VALUE == value, or the ParameterNotFound handler : provision first
NeedsProvisioning(value) == value = EMPTY_VALUE \/ value = ParameterNotFound
\* (seeded fault : after the loop the last team seen is used)
AutomationIndex_last_team(teams) ==
  IF \E i \in 1..Len(teams) : teams[i].name = "Automation"
  THEN CHOOSE i \in 1..Len(teams) :
         /\ teams[i].name = "Automation"
         /\ \A j \in 1..(i-1) : teams[j].name # "Automation"
  ELSE Len(teams)
\* the loop of __get_automation_team_data_from_dt : index of the first team
\* named "Automation", 0 when the loop falls through to the raise
AutomationIndex(teams) ==
  IF \E i \in 1..Len(teams) : teams[i].name = "Automation"
  THEN CHOOSE i \in 1..Len(teams) :
         /\ teams[i].name = "Automation"
         /\ \A j \in 1..(i-1) : teams[j].name # "Automation"
  ELSE 0
\* api_key = team["apiKeys"][0]["key"]
FirstApiKey(team) == team.apiKeys[1]
\* create_proj_rsp.status_code == 401 : rotate and call __create_project again
RetryOn(status) == status = 401

(***************************************************************************)
(* The external collaborators (interfaces only)                            *)
(***************************************************************************)
AllKeys == SbomKeys \cup { "findings-" \o k : k \in SbomKeys }
\* the bytes of the SBOM stored under a key
SbomBody(k) == <<"utf-8", "bom", k>>
\* the findings Dependency Track computes for a document
FindingsOf(bom) == <<"vulns", bom[2]>>
NoObject == <<>>
Forever == 0 - 1

TeamOfKey(k) ==
  IF \E i \in 1..Len(dtTeams) : \E j \in 1..Len(dtTeams[i].apiKeys) :
        dtTeams[i].apiKeys[j] = k
  THEN CHOOSE i \in 1..Len(dtTeams) : \E j \in 1..Len(dtTeams[i].apiKeys) :
        dtTeams[i].apiKeys[j] = k
  ELSE 0
\* the key is a live API key of some team
KeyIsCurrent(k) == TeamOfKey(k) # 0
\* X-Api-Key check of Dependency Track (the 401 stub rejects every key)
DtAccepts(k) == dtMode # "always401" /\ KeyIsCurrent(k)
\* login : the token for the right password, an error text otherwise
DtLogin(password) == IF password = dtPwd THEN GoodJwt ELSE BadJwt
\* forceChangePassword : takes effect only with the right old password
DtForceChange(password, newPassword) ==
  IF password = dtPwd THEN newPassword ELSE dtPwd
\* regenerate key : the old key is replaced by a fresh one in its team
DtRotate(k, new) ==
  [ i \in 1..Len(dtTeams) |->
      [ dtTeams[i] EXCEPT !.apiKeys =
          [ j \in 1..Len(dtTeams[i].apiKeys) |->
              IF dtTeams[i].apiKeys[j] = k THEN new
              ELSE dtTeams[i].apiKeys[j] ] ] ]
\* add permission to team
DtGrant(uuid, perm) ==
  [ i \in 1..Len(dtTeams) |->
      IF dtTeams[i].uuid = uuid
      THEN [ dtTeams[i] EXCEPT !.perms = @ \cup {perm} ]
      ELSE dtTeams[i] ]
ProjectLive(p) == p \in 1..Len(dtProjects) /\ dtProjects[p].live

(***************************************************************************)
(* Injected failures                                                       *)
(***************************************************************************)
\* boto3 call : succeeds or raises ClientError
AwsOutcomes == {"ok"} \cup (IF faults > 0 THEN {"ClientError"} ELSE {})
\* HTTP request with a bearer token : the server answers, answers with an
\* error status, or requests raises ConnectionError
HttpOutcomes ==
  {"ok"} \cup (IF faults > 0 THEN {"HttpError", "ConnectionError"} ELSE {})
\* HTTP request with an API key : additionally an unexpected 401
KeyOutcomes == HttpOutcomes \cup (IF faults > 0 THEN {"Unauthorized"} ELSE {})
Spend(o) == faults' = IF o = "ok" THEN faults ELSE faults - 1
\* status code of a request made with an API key
KeyStatus(o, k) ==
  CASE o = "HttpError" -> 500
    [] o = "Unauthorized" -> 401
    [] OTHER -> IF DtAccepts(k) THEN 200 ELSE 401
\* status code of a request made with a bearer token
JwtStatus(o, jwt) ==
  CASE o = "HttpError" -> 500
    [] OTHER -> IF jwt = GoodJwt THEN 200 ELSE 401

(***************************************************************************)
(* Initial state                                                           *)
(***************************************************************************)
\* the invocations of the token handlers
Handlers == {"h1", "h2"}
\* an invocation that serves no request
NoRequest ==
  [ op |-> "none", token |-> NoValue, pc |-> "done", index |-> NoValue,
    status |-> 0, removed |-> <<>> ]

NoLocals ==
  [ sbom |-> <<>>, key |-> NoValue, api_key |-> NoValue, old_key |-> NoValue,
    new_api_key |-> NoValue, root_pwd |-> NoValue, new_pwd |-> NoValue,
    jwt |-> NoValue, automation_team_uuid |-> "", boot_key |-> NoValue,
    perm |-> 0, project_uuid |-> 0, sbom_token |-> 0, findings |-> <<>> ]
NoError == [ at |-> "", exc |-> "", status |-> 0 ]
NoCalls ==
  [ create |-> 0, rotate |-> 0, grants |-> <<>>, projects |-> <<>>,
    deletes |-> <<>> ]

Administrators ==
  [ name |-> "Administrators", uuid |-> "team-1",
    apiKeys |-> << ApiKey(0 - 1) >>, perms |-> {} ]
Automation(perms) ==
  [ name |-> "Automation", uuid |-> "team-2", apiKeys |-> << ApiKey(0) >>,
    perms |-> perms ]
AllPermissions == { permissions[i] : i \in 1..Len(permissions) }

WithAutomation(perms) == << Administrators, Automation(perms) >>
Deployment(pwd, key, password, teams, mode, second) ==
  [ pwd |-> pwd, key |-> key, dtPwd |-> password, teams |-> teams,
    mode |-> mode, second |-> second ]

\* the deployments the pipeline is started in, each with the SBOMs the second
\* run may be triggered for ("sbom-abc" is a redelivery of the first run's
\* message).  Against an honest Dependency Track : cold (nothing
\* provisioned, a parameter being EMPTY or missing, with or without an
\* Automation team), password provisioned only, and warm (password and key
\* provisioned).  Against the stubs : cold and warm with the stub that
\* answers 401 to every API key, warm with the stub whose jobs never finish.
Deployments ==
  { Deployment(EMPTY_VALUE, ParameterNotFound, DT_DEFAULT_ADMIN_PWD,
               WithAutomation({}), "honest", {"sbom-abc"}),
    Deployment(ParameterNotFound, EMPTY_VALUE, DT_DEFAULT_ADMIN_PWD,
               << Administrators >>, "honest", {"sbom-abc"}),
    Deployment(Uuid4(0), EMPTY_VALUE, Uuid4(0),
               WithAutomation({}), "honest", {"sbom-xyz"}),
    Deployment(Uuid4(0), ApiKey(0), Uuid4(0),
               WithAutomation(AllPermissions), "honest", SbomKeys),
    Deployment(EMPTY_VALUE, EMPTY_VALUE, DT_DEFAULT_ADMIN_PWD,
               WithAutomation({}), "always401", {"sbom-abc"}),
    Deployment(Uuid4(0), ApiKey(0), Uuid4(0),
               WithAutomation(AllPermissions), "always401", {"sbom-xyz"}),
    Deployment(Uuid4(0), ApiKey(0), Uuid4(0),
               WithAutomation(AllPermissions), "neverReady", {"sbom-abc"}) }

\* the queue messages of the runs
Deliveries(second) ==
  { [ r \in Runs |->
        [ bucket |-> "sboms",
          key |-> IF r = "r1" THEN "sbom-abc" ELSE k ] ] : k \in second }

\* the state when the runs in `triggered` start; the other runs never start
InitWith(triggered) ==
  /\ pc = [ r \in Runs |-> IF r \in triggered THEN "s3_get" ELSE "idle" ]
  /\ stack = [ r \in Runs |-> <<>> ]
  /\ loc = [ r \in Runs |-> NoLocals ]
  /\ err = [ r \in Runs |-> NoError ]
  /\ \E d \in Deployments :
       /\ ssm = [ n \in {DT_API_KEY, DT_ROOT_PWD} |->
                    IF n = DT_API_KEY THEN d.key ELSE d.pwd ]
       /\ dtPwd = d.dtPwd
       /\ dtTeams = d.teams
       /\ dtMode = d.mode
       /\ event \in Deliveries(d.second)
  /\ s3 = [ o \in Buckets \X AllKeys |->
              IF o[2] \in SbomKeys THEN SbomBody(o[2]) ELSE NoObject ]
  /\ dtProjects = <<>>
  /\ dtKeys = 0
  /\ pwds = 0
  /\ faults = MaxFaults
  /\ phase = [ r \in Runs |-> "triggered" ]
  /\ calls = [ r \in Runs |-> NoCalls ]
  /\ records = {}
  /\ notified = {}
  /\ queue = <<>>
  /\ tokens = <<>>
  /\ handlers = [ h \in Handlers |-> NoRequest ]

\* concurrent runs
Init == InitWith(Runs)
\* no run yet : the SBOMs are in the bucket, their notifications are due
IngressInit == InitWith({})
\* one run on its own
SoloInit == InitWith({"r1"})

(***************************************************************************)
(* Control flow of one run                                                 *)
(***************************************************************************)
\* an exception leaves every frame of the run : the Lambda invocation fails
Abort(r, at, exc, status) ==
  /\ pc' = [ pc EXCEPT ![r] = "aborted" ]
  /\ stack' = [ stack EXCEPT ![r] = <<>> ]
  /\ loc' = [ loc EXCEPT ![r] = NoLocals ]
  /\ err' = [ err EXCEPT ![r] = [ at |-> at, exc |-> exc, status |-> status ] ]

Goto(r, label, stk, locals) ==
  /\ pc' = [ pc EXCEPT ![r] = label ]
  /\ stack' = [ stack EXCEPT ![r] = stk ]
  /\ loc' = [ loc EXCEPT ![r] = locals ]
  /\ UNCHANGED err

\* key = __get_api_key() : enter the callee, remember who asked
CallGetApiKey(r, caller, locals) ==
  Goto(r, "get_api_key", <<caller>> \o stack[r], locals)

\* jwt = __get_jwt() : __get_jwt starts with __get_root_password()
CallGetJwt(r, caller, locals) ==
  Goto(r, "get_root_password", <<caller>> \o stack[r], locals)

\* return value : the caller assigns the key and goes on to its request
ReturnApiKey(r, value, locals) ==
  LET caller == Head(stack[r])
      rest == Tail(stack[r])
  IN CASE caller = "create_project" ->
            Goto(r, caller, rest, [ locals EXCEPT !.key = value ])
       [] caller = "findings_ready" ->
            Goto(r, caller, rest, [ locals EXCEPT !.key = value ])
       [] caller = "rotate_api_key" ->
            Goto(r, "get_root_password", <<"rotate_post">> \o rest,
                 [ locals EXCEPT !.old_key = value ])
       [] OTHER ->
            Goto(r, caller, rest, [ locals EXCEPT !.api_key = value ])

Issued(r, step) == phase' = [ phase EXCEPT ![r] = step ]

\* (seeded fault : the project is left behind)
dt_interface_handler_next_no_delete(step) ==
  CASE step = "s3_get" -> "create_project"
    [] step = "create_project" -> "upload_sbom"
    [] step = "upload_sbom" -> "findings_ready"
    [] step = "get_findings" -> "s3_put"
    [] step = "delete_project" -> "s3_put"
\* (seeded fault : the project is deleted before the findings are fetched)
dt_interface_handler_next_delete_first(step) ==
  CASE step = "s3_get" -> "create_project"
    [] step = "create_project" -> "upload_sbom"
    [] step = "upload_sbom" -> "delete_project"
    [] step = "delete_project" -> "findings_ready"
    [] step = "get_findings" -> "s3_put"
\* dt_interface_handler : the call that follows each call of the handler body
\* (__get_findings is the polling loop followed by the findings request)
dt_interface_handler_next(step) ==
  CASE step = "s3_get" -> "create_project"
    [] step = "create_project" -> "upload_sbom"
    [] step = "upload_sbom" -> "findings_ready"
    [] step = "get_findings" -> "delete_project"
    [] step = "delete_project" -> "s3_put"

\* the handler goes on : every Dependency Track call starts with
\* __get_api_key(), the final S3 put does not
Continue(r, step, locals) ==
  LET next == dt_interface_handler_next(step) IN
  IF next = "s3_put"
  THEN Goto(r, next, stack[r], locals)
  ELSE CallGetApiKey(r, next, locals)

(***************************************************************************)
(* Credential lifecycle                                                    *)
(***************************************************************************)
\* (seeded fault : every error of get_parameter is handled like
\* ParameterNotFound)
get_api_key_catches_all(r) ==
  /\ pc[r] = "get_api_key"
  /\ \E o \in AwsOutcomes :
       /\ Spend(o)
       /\ IF o = "ClientError" \/ NeedsProvisioning(ssm[DT_API_KEY])
          THEN CallGetJwt(r, "get_teams", loc[r])
          ELSE ReturnApiKey(r, ssm[DT_API_KEY], loc[r])
  /\ UNCHANGED << envVars, ssm, s3, dtVars, pwds, phase, calls >>
\* __get_api_key : ssm.get_parameter(DT_API_KEY)
get_api_key(r) ==
  /\ pc[r] = "get_api_key"
  /\ \E o \in AwsOutcomes :
       /\ Spend(o)
       /\ IF o = "ClientError"
          THEN Abort(r, "get_api_key", "ClientError", 0)
          ELSE IF NeedsProvisioning(ssm[DT_API_KEY])
               \* __set_initial_api_key_in_ssm ->
               \* __get_automation_team_data_from_dt -> __get_teams -> __get_jwt
               THEN CallGetJwt(r, "get_teams", loc[r])
               ELSE ReturnApiKey(r, ssm[DT_API_KEY], loc[r])
  /\ UNCHANGED << envVars, ssm, s3, dtVars, pwds, phase, calls >>

\* __get_root_password : ssm.get_parameter(DT_ROOT_PWD)
get_root_password(r) ==
  /\ pc[r] = "get_root_password"
  /\ \E o \in AwsOutcomes :
       /\ Spend(o)
       /\ IF o = "ClientError"
          THEN Abort(r, "get_root_password", "ClientError", 0)
          ELSE IF NeedsProvisioning(ssm[DT_ROOT_PWD])
               THEN Goto(r, "change_pwd_post", stack[r], loc[r])
               ELSE Goto(r, "get_jwt", stack[r],
                         [ loc[r] EXCEPT !.root_pwd = ssm[DT_ROOT_PWD] ])
  /\ UNCHANGED << envVars, ssm, s3, dtVars, pwds, phase, calls >>

\* __change_dt_root_pwd : post(force_chg_pwd), the response is not looked at
change_dt_root_pwd_post(r) ==
  /\ pc[r] = "change_pwd_post"
  /\ pwds' = pwds + 1
  /\ \E o \in HttpOutcomes :
       LET new_pwd == Uuid4(pwds + 1) IN
       /\ Spend(o)
       /\ IF o = "ConnectionError"
          THEN Abort(r, "change_dt_root_pwd", "ConnectionError", 0)
          ELSE Goto(r, "change_pwd_put", stack[r],
                    [ loc[r] EXCEPT !.new_pwd = new_pwd ])
       /\ dtPwd' = IF o = "ok"
                   THEN DtForceChange(DT_DEFAULT_ADMIN_PWD, new_pwd)
                   ELSE dtPwd
  /\ UNCHANGED << envVars, ssm, s3, dtTeams, dtProjects, dtKeys, phase, calls >>

\* __change_dt_root_pwd : ssm.put_parameter(DT_ROOT_PWD), then the caller
\* calls __get_root_password() again
change_dt_root_pwd_put(r) ==
  /\ pc[r] = "change_pwd_put"
  /\ \E o \in AwsOutcomes :
       /\ Spend(o)
       /\ IF o = "ClientError"
          THEN /\ Abort(r, "change_dt_root_pwd", "ClientError", 0)
               /\ UNCHANGED ssm
          ELSE /\ ssm' = [ ssm EXCEPT ![DT_ROOT_PWD] = loc[r].new_pwd ]
               /\ Goto(r, "get_root_password", stack[r],
                       [ loc[r] EXCEPT !.new_pwd = NoValue ])
  /\ UNCHANGED << envVars, s3, dtVars, pwds, phase, calls >>

\* __get_jwt : post(do_login), jwt = response.text whatever the status
get_jwt(r) ==
  /\ pc[r] = "get_jwt"
  /\ \E o \in HttpOutcomes :
       LET jwt == IF o = "ok" THEN DtLogin(loc[r].root_pwd) ELSE BadJwt
           caller == Head(stack[r])
       IN
       /\ Spend(o)
       /\ IF o = "ConnectionError"
          THEN Abort(r, "get_jwt", "ConnectionError", 0)
          ELSE Goto(r, caller, Tail(stack[r]),
                    [ loc[r] EXCEPT !.jwt = jwt, !.root_pwd = NoValue,
                        !.perm = IF caller = "set_team_permissions"
                                 THEN 1 ELSE @ ])
  /\ UNCHANGED << envVars, ssm, s3, dtVars, pwds, phase, calls >>

\* __get_teams : get(get_teams_data), response.json();
\* __get_automation_team_data_from_dt : the loop over the teams;
\* __set_initial_api_key_in_ssm goes on to __set_team_permissions
get_teams(r) ==
  /\ pc[r] = "get_teams"
  /\ \E o \in HttpOutcomes :
       LET status == JwtStatus(o, loc[r].jwt)
           i == AutomationIndex(dtTeams)
       IN
       /\ Spend(o)
       /\ CASE o = "ConnectionError" ->
                 Abort(r, "get_teams", "ConnectionError", 0)
            [] o # "ConnectionError" /\ status # 200 ->
                 Abort(r, "get_teams", "JSONDecodeError", status)
            [] o # "ConnectionError" /\ status = 200 /\ i = 0 ->
                 Abort(r, "get_automation_team_data_from_dt",
                       "Unable to find Automation team in DT", status)
            [] OTHER ->
                 CallGetJwt(r, "set_team_permissions",
                   [ loc[r] EXCEPT !.automation_team_uuid = dtTeams[i].uuid,
                                   !.boot_key = FirstApiKey(dtTeams[i]),
                                   !.jwt = NoValue ])
  /\ UNCHANGED << envVars, ssm, s3, dtVars, pwds, phase, calls >>

\* __set_team_permissions : one post(add_permission_to_team) of the loop,
\* the response is not looked at
set_team_permissions(r) ==
  /\ pc[r] = "set_team_permissions"
  /\ \E o \in HttpOutcomes :
       LET i == loc[r].perm
           status == JwtStatus(o, loc[r].jwt)
       IN
       /\ Spend(o)
       /\ calls' = [ calls EXCEPT ![r].grants = Append(@, permissions[i]) ]
       /\ IF o = "ConnectionError"
          THEN /\ Abort(r, "set_team_permissions", "ConnectionError", 0)
               /\ UNCHANGED dtTeams
          ELSE /\ dtTeams' = IF status = 200
                             THEN DtGrant(loc[r].automation_team_uuid,
                                          permissions[i])
                             ELSE dtTeams
               /\ IF i < Len(permissions)
                  THEN Goto(r, "set_team_permissions", stack[r],
                            [ loc[r] EXCEPT !.perm = i + 1 ])
                  ELSE Goto(r, "put_initial_api_key", stack[r],
                            [ loc[r] EXCEPT !.perm = 0, !.jwt = NoValue ])
  /\ UNCHANGED << envVars, ssm, s3, dtPwd, dtProjects, dtKeys, pwds, phase >>

\* __set_initial_api_key_in_ssm : ssm.put_parameter(DT_API_KEY), return api_key
set_initial_api_key_in_ssm(r) ==
  /\ pc[r] = "put_initial_api_key"
  /\ \E o \in AwsOutcomes :
       /\ Spend(o)
       /\ IF o = "ClientError"
          THEN /\ Abort(r, "set_initial_api_key_in_ssm", "ClientError", 0)
               /\ UNCHANGED ssm
          ELSE /\ ssm' = [ ssm EXCEPT ![DT_API_KEY] = loc[r].boot_key ]
               /\ ReturnApiKey(r, loc[r].boot_key,
                    [ loc[r] EXCEPT !.boot_key = NoValue,
                                    !.automation_team_uuid = "" ])
  /\ UNCHANGED << envVars, s3, dtVars, pwds, phase, calls >>

\* __rotate_api_key : post(rotate_api_key(old_key)), resp.json()["key"]
rotate_api_key_post(r) ==
  /\ pc[r] = "rotate_post"
  /\ \E o \in HttpOutcomes :
       LET status == JwtStatus(o, loc[r].jwt)
           rotated == status = 200 /\ KeyIsCurrent(loc[r].old_key)
           new_api_key == ApiKey(dtKeys + 1)
       IN
       /\ rotated => dtKeys < MaxKeys
       /\ Spend(o)
       /\ CASE o = "ConnectionError" ->
                 /\ Abort(r, "rotate_api_key", "ConnectionError", 0)
                 /\ UNCHANGED << dtTeams, dtKeys >>
            [] o # "ConnectionError" /\ ~rotated ->
                 /\ Abort(r, "rotate_api_key", "JSONDecodeError",
                          IF status = 200 THEN 404 ELSE status)
                 /\ UNCHANGED << dtTeams, dtKeys >>
            [] OTHER ->
                 /\ dtTeams' = DtRotate(loc[r].old_key, new_api_key)
                 /\ dtKeys' = dtKeys + 1
                 /\ Goto(r, "rotate_put", stack[r],
                         [ loc[r] EXCEPT !.new_api_key = new_api_key,
                                         !.jwt = NoValue ])
  /\ UNCHANGED << envVars, ssm, s3, dtPwd, dtProjects, pwds, phase, calls >>

\* __rotate_api_key ends after put_parameter without a return statement :
\* the call evaluates to None whatever the new key is
rotate_api_key_result(new_api_key) == NoValue

\* __rotate_api_key : ssm.put_parameter(DT_API_KEY); back in __create_project,
\* return __create_project()
rotate_api_key_put(r) ==
  /\ pc[r] = "rotate_put"
  /\ \E o \in AwsOutcomes :
       /\ Spend(o)
       /\ IF o = "ClientError"
          THEN /\ Abort(r, "rotate_api_key", "ClientError", 0)
               /\ UNCHANGED ssm
          ELSE /\ ssm' = [ ssm EXCEPT ![DT_API_KEY] = loc[r].new_api_key ]
               /\ CallGetApiKey(r, "create_project",
                    [ loc[r] EXCEPT !.new_api_key = NoValue,
                                    !.old_key = NoValue, !.key = NoValue ])
  /\ UNCHANGED << envVars, s3, dtVars, pwds, phase, calls >>


(***************************************************************************)
(* Dependency Track calls made with the API key                            *)
(***************************************************************************)
\* __create_project : put(create_project), 401 -> __rotate_api_key() and
\* __create_project() again, otherwise create_proj_rsp.json()["uuid"]
create_project(r) ==
  /\ pc[r] = "create_project"
  /\ Issued(r, "create")
  /\ \E o \in KeyOutcomes :
       LET status == KeyStatus(o, loc[r].key)
           uuid == Len(dtProjects) + 1
       IN
       /\ Spend(o)
       /\ CASE o = "ConnectionError" ->
                 /\ Abort(r, "create_project", "ConnectionError", 0)
                 /\ calls' = [ calls EXCEPT ![r].create = @ + 1 ]
                 /\ UNCHANGED dtProjects
            [] o # "ConnectionError" /\ RetryOn(status) ->
                 \* old_key = __get_api_key() of __rotate_api_key
                 /\ CallGetApiKey(r, "rotate_api_key", loc[r])
                 /\ calls' = [ calls EXCEPT ![r].create = @ + 1,
                                            ![r].rotate = @ + 1 ]
                 /\ UNCHANGED dtProjects
            [] o # "ConnectionError" /\ ~RetryOn(status) /\ status # 200 ->
                 /\ Abort(r, "create_project", "JSONDecodeError", status)
                 /\ calls' = [ calls EXCEPT ![r].create = @ + 1 ]
                 /\ UNCHANGED dtProjects
            [] OTHER ->
                 /\ dtProjects' = Append(dtProjects,
                      [ live |-> TRUE, bom |-> <<>>, remaining |-> 0 ])
                 /\ calls' = [ calls EXCEPT ![r].create = @ + 1,
                                            ![r].projects = Append(@, uuid) ]
                 \* back in the handler : __upload_sbom(project_uuid, ...)
                 /\ Continue(r, "create_project",
                      [ loc[r] EXCEPT !.project_uuid = uuid,
                                      !.key = NoValue ])
  /\ UNCHANGED << envVars, ssm, s3, dtPwd, dtTeams, dtKeys, pwds >>

\* the number of "processing" answers Dependency Track gives for an upload
ProcessingChoices ==
  IF dtMode = "neverReady" THEN {Forever} ELSE 0..MaxProcessing

\* __upload_sbom : post(post_sbom), upload_sbom_rsp.json()["token"]
upload_sbom(r) ==
  /\ pc[r] = "upload_sbom"
  /\ Issued(r, "upload")
  /\ \E o \in KeyOutcomes :
       LET status == KeyStatus(o, loc[r].api_key)
           p == loc[r].project_uuid
       IN
       /\ Spend(o)
       /\ CASE o = "ConnectionError" ->
                 /\ Abort(r, "upload_sbom", "ConnectionError", 0)
                 /\ UNCHANGED dtProjects
            [] o # "ConnectionError" /\ (status # 200 \/ ~ProjectLive(p)) ->
                 /\ Abort(r, "upload_sbom", "JSONDecodeError",
                          IF status = 200 THEN 404 ELSE status)
                 /\ UNCHANGED dtProjects
            [] OTHER ->
                 /\ \E n \in ProcessingChoices :
                      dtProjects' = [ dtProjects EXCEPT
                                        ![p].bom = loc[r].sbom,
                                        ![p].remaining = n ]
                 \* back in the handler : __get_findings(project_uuid, token)
                 /\ Continue(r, "upload_sbom",
                      [ loc[r] EXCEPT !.sbom_token = p,
                                      !.api_key = NoValue,
                                      !.sbom = <<>> ])
  /\ UNCHANGED << envVars, ssm, s3, dtPwd, dtTeams, dtKeys, pwds, calls >>

\* (seeded fault : the "not" of the return value is missing)
findings_ready_negated(r) ==
  /\ pc[r] = "findings_ready"
  /\ Issued(r, "poll")
  /\ \E o \in KeyOutcomes :
       LET status == KeyStatus(o, loc[r].key)
           t == loc[r].sbom_token
           processing == dtProjects[t].remaining # 0
       IN
       /\ Spend(o)
       /\ CASE o = "ConnectionError" ->
                 /\ Abort(r, "findings_ready", "ConnectionError", 0)
                 /\ UNCHANGED dtProjects
            [] o # "ConnectionError" /\ status # 200 ->
                 /\ Abort(r, "findings_ready", "JSONDecodeError", status)
                 /\ UNCHANGED dtProjects
            [] OTHER ->
                 /\ dtProjects' = [ dtProjects EXCEPT ![t].remaining =
                                      IF @ > 0 THEN @ - 1 ELSE @ ]
                 /\ IF processing
                    THEN Goto(r, "get_findings", stack[r], loc[r])
                    ELSE Goto(r, "sleep", stack[r], loc[r])
  /\ UNCHANGED << envVars, ssm, s3, dtPwd, dtTeams, dtKeys, pwds, calls >>
\* __findings_ready as the condition of the while loop of __get_findings :
\* get(get_sbom_status), not response.json()["processing"]
findings_ready(r) ==
  /\ pc[r] = "findings_ready"
  /\ Issued(r, "poll")
  /\ \E o \in KeyOutcomes :
       LET status == KeyStatus(o, loc[r].key)
           t == loc[r].sbom_token
           processing == dtProjects[t].remaining # 0
       IN
       /\ Spend(o)
       /\ CASE o = "ConnectionError" ->
                 /\ Abort(r, "findings_ready", "ConnectionError", 0)
                 /\ UNCHANGED dtProjects
            [] o # "ConnectionError" /\ status # 200 ->
                 /\ Abort(r, "findings_ready", "JSONDecodeError", status)
                 /\ UNCHANGED dtProjects
            [] OTHER ->
                 /\ dtProjects' = [ dtProjects EXCEPT ![t].remaining =
                                      IF @ > 0 THEN @ - 1 ELSE @ ]
                 /\ IF processing
                    THEN Goto(r, "sleep", stack[r], loc[r])
                    ELSE Goto(r, "get_findings", stack[r], loc[r])
  /\ UNCHANGED << envVars, ssm, s3, dtPwd, dtTeams, dtKeys, pwds, calls >>

\* body of the while loop of __get_findings : sleep(0.5), then poll again
sleep(r) ==
  /\ pc[r] = "sleep"
  /\ Goto(r, "findings_ready", stack[r], loc[r])
  /\ UNCHANGED << envVars, ssm, s3, dtVars, pwds, faults, phase, calls >>

\* __get_findings after the loop : get(get_findings), findings.json()
get_findings(r) ==
  /\ pc[r] = "get_findings"
  /\ Issued(r, "findings")
  /\ \E o \in KeyOutcomes :
       LET status == KeyStatus(o, loc[r].key)
           p == loc[r].project_uuid
       IN
       /\ Spend(o)
       /\ CASE o = "ConnectionError" ->
                 Abort(r, "get_findings", "ConnectionError", 0)
            [] o # "ConnectionError" /\ (status # 200 \/ ~ProjectLive(p)) ->
                 Abort(r, "get_findings", "JSONDecodeError",
                       IF status = 200 THEN 404 ELSE status)
            [] OTHER ->
                 \* back in the handler : __delete_project(project_uuid)
                 Continue(r, "get_findings",
                   [ loc[r] EXCEPT !.findings = FindingsOf(dtProjects[p].bom),
                                   !.key = NoValue, !.sbom_token = 0 ])
  /\ UNCHANGED << envVars, ssm, s3, dtVars, pwds, calls >>

\* (seeded fault : the delete request names the oldest project)
delete_project_oldest(r) ==
  /\ pc[r] = "delete_project"
  /\ Issued(r, "delete")
  /\ calls' = [ calls EXCEPT ![r].deletes = Append(@, 1) ]
  /\ \E o \in KeyOutcomes :
       LET status == KeyStatus(o, loc[r].api_key)
           p == 1
       IN
       /\ Spend(o)
       /\ IF o = "ConnectionError"
          THEN /\ Abort(r, "delete_project", "ConnectionError", 0)
               /\ UNCHANGED dtProjects
          ELSE /\ dtProjects' = IF status = 200 /\ ProjectLive(p)
                                THEN [ dtProjects EXCEPT ![p].live = FALSE ]
                                ELSE dtProjects
               /\ Continue(r, "delete_project",
                           [ loc[r] EXCEPT !.api_key = NoValue ])
  /\ UNCHANGED << envVars, ssm, s3, dtPwd, dtTeams, dtKeys, pwds >>
\* __delete_project : put(delete_project), the response is not looked at
delete_project(r) ==
  /\ pc[r] = "delete_project"
  /\ Issued(r, "delete")
  /\ calls' = [ calls EXCEPT ![r].deletes = Append(@, loc[r].project_uuid) ]
  /\ \E o \in KeyOutcomes :
       LET status == KeyStatus(o, loc[r].api_key)
           p == loc[r].project_uuid
       IN
       /\ Spend(o)
       /\ IF o = "ConnectionError"
          THEN /\ Abort(r, "delete_project", "ConnectionError", 0)
               /\ UNCHANGED dtProjects
          ELSE /\ dtProjects' = IF status = 200 /\ ProjectLive(p)
                                THEN [ dtProjects EXCEPT ![p].live = FALSE ]
                                ELSE dtProjects
               /\ Continue(r, "delete_project",
                           [ loc[r] EXCEPT !.api_key = NoValue ])
  /\ UNCHANGED << envVars, ssm, s3, dtPwd, dtTeams, dtKeys, pwds >>

(***************************************************************************)
(* dt_interface_handler                                                    *)
(***************************************************************************)
\* s3.Object(bucket_name, key).get(), decode, then __create_project()
dt_interface_handler_get(r) ==
  /\ pc[r] = "s3_get"
  /\ Issued(r, "read")
  /\ \E o \in AwsOutcomes :
       LET body == s3[<< event[r].bucket, event[r].key >>] IN
       /\ Spend(o)
       /\ CASE o = "ClientError" ->
                 Abort(r, "dt_interface_handler", "ClientError", 0)
            [] o # "ClientError" /\ body = NoObject ->
                 Abort(r, "dt_interface_handler", "NoSuchKey", 0)
            [] OTHER ->
                 Continue(r, "s3_get",
                   [ loc[r] EXCEPT !.sbom = Decode(body) ])
  /\ UNCHANGED << envVars, ssm, s3, dtVars, pwds, calls >>

\* s3.Object(bucket_name, findings_key).put(Body=findings_bytes), return True
dt_interface_handler_put(r) ==
  /\ pc[r] = "s3_put"
  /\ Issued(r, "write")
  /\ \E o \in AwsOutcomes :
       /\ Spend(o)
       /\ IF o = "ClientError"
          THEN /\ Abort(r, "dt_interface_handler", "ClientError", 0)
               /\ UNCHANGED s3
          ELSE /\ s3' = [ s3 EXCEPT
                          ![<< event[r].bucket, FindingsKey(event[r].key) >>] =
                            Dumps(loc[r].findings) ]
               /\ Goto(r, "done", <<>>, NoLocals)
  /\ UNCHANGED << envVars, ssm, dtVars, pwds, calls >>

(***************************************************************************)
(* enrichment_ingress_handler and the triggers around it                   *)
(***************************************************************************)
\* (seeded fault : the prefix is looked for anywhere in the key)
startswith_anywhere(key, prefix) ==
  \E i \in 1..Len(key) :
    i + Len(prefix) - 1 <= Len(key) /\ SubSeq(key, i, i + Len(prefix) - 1) = prefix
\* key.startswith(prefix)
startswith(key, prefix) ==
  Len(key) >= Len(prefix) /\ SubSeq(key, 1, Len(prefix)) = prefix

\* MessageBody=dumps({SBOM_BUCKET_NAME_KEY: bucket_name, SBOM_S3_KEY: key})
MessageBody(bucket_name, key) ==
  [ n \in {SBOM_BUCKET_NAME_KEY, SBOM_S3_KEY} |->
      IF n = SBOM_BUCKET_NAME_KEY THEN bucket_name ELSE key ]

\* the bucket raises one notification for an object that has been put
s3_event(o) ==
  /\ s3[o] # NoObject
  /\ o \notin notified
  /\ notified' = notified \cup {o}
  /\ records' = records \cup {o}
  /\ UNCHANGED << runVars, event, dtMode, ssm, s3, dtVars, pwds, faults,
                  phase, calls, queue, tokenVars >>

\* enrichment_ingress_handler for an event with one record : keys that
\* start with "sbom" are read and sent to the queue, the others are left
enrichment_ingress_handler(record) ==
  /\ record \in records
  /\ records' = records \ {record}
  /\ LET bucket_name == record[1]
         key == record[2]
     IN IF startswith(key, "sbom")
        THEN \E get \in AwsOutcomes :
               IF get = "ClientError"
               THEN Spend(get) /\ UNCHANGED queue
               ELSE \E send \in AwsOutcomes :
                      /\ Spend(send)
                      /\ queue' = IF send = "ClientError" THEN queue
                                  ELSE Append(queue, MessageBody(bucket_name, key))
        ELSE UNCHANGED << queue, faults >>
  /\ UNCHANGED << runVars, event, dtMode, ssm, s3, dtVars, pwds, phase, calls,
                  notified, tokenVars >>

\* the queue hands its first message to a new invocation of
\* dt_interface_handler : bucket_name, key = s3_info[...].  All messages
\* are sent with MessageGroupId="dt_enrichment", so the next one is handed
\* out when the invocation for the one before it has ended.
deliver(r) ==
  /\ pc[r] = "idle"
  /\ \A q \in Runs \ {r} : pc[q] \in {"idle", "done", "aborted"}
  /\ queue # <<>>
  /\ LET s3_info == Head(queue) IN
     event' = [ event EXCEPT ![r] = [ bucket |-> s3_info[SBOM_BUCKET_NAME_KEY],
                                      key |-> s3_info[SBOM_S3_KEY] ] ]
  /\ queue' = Tail(queue)
  /\ pc' = [ pc EXCEPT ![r] = "s3_get" ]
  /\ UNCHANGED << stack, loc, err, dtMode, ssm, s3, dtVars, pwds, faults,
                  phase, calls, records, notified, tokenVars >>

(***************************************************************************)
(* create_token_handler and delete_token_handler                           *)
(***************************************************************************)
\* f"sbom-api-{uuid4()}" : the n-th token
Token(n) == <<"sbom-api", n>>
\* the result of __get_token_index : a list position, counted from zero,
\* or None
Position(i) == <<"int", i>>
None == <<"None", 0>>

\* __get_token_index(tokens, token) : position of the token in the list,
\* None when the list does not hold it
get_token_index(list, token) ==
  IF \E i \in 1..Len(list) : list[i] = token
  THEN Position((CHOOSE i \in 1..Len(list) :
                   list[i] = token /\ \A j \in 1..(i-1) : list[j] # token) - 1)
  ELSE None

\* (seeded fault : only None counts as "not found")
Truthy_is_not_none(index) == index # None
\* `if index:` : None and 0 are false, every other number is true
Truthy(index) == index # None /\ index[2] # 0

\* REMOVE #t[index] : the list without its element at the position; a
\* position past the end removes nothing
RemoveAt(list, index) ==
  IF index + 1 \in 1..Len(list)
  THEN SubSeq(list, 1, index) \o SubSeq(list, index + 2, Len(list))
  ELSE list
RemovedAt(list, index) ==
  IF index + 1 \in 1..Len(list) THEN << list[index + 1] >> ELSE <<>>

pipelineVars ==
  << runVars, event, dtMode, ssm, s3, dtVars, pwds, phase, calls, ingressVars >>

\* delete_token_handler : table.get_item, __get_token_index, `if index:`
delete_token_handler_get(h) ==
  /\ handlers[h].op = "delete"
  /\ handlers[h].pc = "get_item"
  /\ \E o \in AwsOutcomes :
       LET index == get_token_index(tokens, handlers[h].token) IN
       /\ Spend(o)
       /\ handlers' = [ handlers EXCEPT ![h] =
            CASE o = "ClientError" ->
                   [ @ EXCEPT !.pc = "raised" ]
              [] o # "ClientError" /\ Truthy(index) ->
                   [ @ EXCEPT !.pc = "update_item", !.index = index ]
              [] OTHER ->
                   [ @ EXCEPT !.pc = "done", !.status = 401 ] ]
  /\ UNCHANGED << pipelineVars, tokens >>

\* delete_token_handler : table.update_item(REMOVE #t[index]), 200, or 500
\* when the call raises
delete_token_handler_update(h) ==
  /\ handlers[h].op = "delete"
  /\ handlers[h].pc = "update_item"
  /\ \E o \in AwsOutcomes :
       LET index == handlers[h].index[2] IN
       /\ Spend(o)
       /\ IF o = "ClientError"
          THEN /\ handlers' = [ handlers EXCEPT ![h].pc = "done",
                                                ![h].status = 500 ]
               /\ UNCHANGED tokens
          ELSE /\ tokens' = RemoveAt(tokens, index)
               /\ handlers' = [ handlers EXCEPT
                                  ![h].pc = "done",
                                  ![h].status = 200,
                                  ![h].removed = RemovedAt(tokens, index) ]
  /\ UNCHANGED pipelineVars

\* create_token_handler : table.update_item(list_append(#t, :ti)), 200, or
\* 500 when the call raises
create_token_handler(h) ==
  /\ handlers[h].op = "create"
  /\ handlers[h].pc = "update_item"
  /\ \E o \in AwsOutcomes :
       /\ Spend(o)
       /\ IF o = "ClientError"
          THEN /\ handlers' = [ handlers EXCEPT ![h].pc = "done",
                                                ![h].status = 500 ]
               /\ UNCHANGED tokens
          ELSE /\ tokens' = Append(tokens, handlers[h].token)
               /\ handlers' = [ handlers EXCEPT ![h].pc = "done",
                                                ![h].status = 200 ]
  /\ UNCHANGED pipelineVars

\* the requests an invocation may serve : delete one of the team's tokens or
\* a token the team does not have, or create a token
Requests(h) ==
  { [ NoRequest EXCEPT !.op = "delete", !.token = Token(n),
                       !.pc = "get_item" ] : n \in 0..MaxTokens }
  \cup { [ NoRequest EXCEPT !.op = "create", !.pc = "update_item",
            !.token = Token(MaxTokens + (IF h = "h1" THEN 1 ELSE 2)) ] }

\* a team with its tokens, two requests arriving, the pipeline at rest
TokenInit ==
  /\ pc = [ r \in Runs |-> "idle" ]
  /\ stack = [ r \in Runs |-> <<>> ]
  /\ loc = [ r \in Runs |-> NoLocals ]
  /\ err = [ r \in Runs |-> NoError ]
  /\ event = [ r \in Runs |-> [ bucket |-> "sboms", key |-> "sbom-abc" ] ]
  /\ ssm = [ n \in {DT_API_KEY, DT_ROOT_PWD} |->
               IF n = DT_API_KEY THEN ApiKey(0) ELSE Uuid4(0) ]
  /\ s3 = [ o \in Buckets \X AllKeys |-> NoObject ]
  /\ dtPwd = Uuid4(0)
  /\ dtTeams = WithAutomation(AllPermissions)
  /\ dtProjects = <<>>
  /\ dtKeys = 0
  /\ dtMode = "honest"
  /\ pwds = 0
  /\ faults = MaxFaults
  /\ phase = [ r \in Runs |-> "triggered" ]
  /\ calls = [ r \in Runs |-> NoCalls ]
  /\ records = {}
  /\ notified = {}
  /\ queue = <<>>
  /\ tokens = [ i \in 1..MaxTokens |-> Token(i) ]
  /\ handlers \in { f \in [ Handlers -> UNION { Requests(h) : h \in Handlers } ] :
                      \A h \in Handlers : f[h] \in Requests(h) }

(***************************************************************************)
(* Specification                                                           *)
(***************************************************************************)
Step(r) ==
  \/ dt_interface_handler_get(r)
  \/ get_api_key(r)
  \/ get_root_password(r)
  \/ change_dt_root_pwd_post(r)
  \/ change_dt_root_pwd_put(r)
  \/ get_jwt(r)
  \/ get_teams(r)
  \/ set_team_permissions(r)
  \/ set_initial_api_key_in_ssm(r)
  \/ create_project(r)
  \/ rotate_api_key_post(r)
  \/ rotate_api_key_put(r)
  \/ upload_sbom(r)
  \/ findings_ready(r)
  \/ sleep(r)
  \/ get_findings(r)
  \/ delete_project(r)
  \/ dt_interface_handler_put(r)

Next == \E r \in Runs : Step(r)

Spec == Init /\ [][Next]_vars

SoloSpec == SoloInit /\ [][Next]_vars

\* every run that can take a step eventually does (the Lambda keeps running)
FairSpec == Spec /\ \A r \in Runs : WF_vars(Step(r))

SoloFairSpec == SoloSpec /\ \A r \in Runs : WF_vars(Step(r))

\* the second message is delivered when the first invocation has ended
Turn(r) == r = "r1" \/ pc["r1"] \in {"done", "aborted"}

SeqStep(r) ==
  \/ Turn(r) /\ dt_interface_handler_get(r)
  \/ Turn(r) /\ get_api_key(r)
  \/ Turn(r) /\ get_root_password(r)
  \/ Turn(r) /\ change_dt_root_pwd_post(r)
  \/ Turn(r) /\ change_dt_root_pwd_put(r)
  \/ Turn(r) /\ get_jwt(r)
  \/ Turn(r) /\ get_teams(r)
  \/ Turn(r) /\ set_team_permissions(r)
  \/ Turn(r) /\ set_initial_api_key_in_ssm(r)
  \/ Turn(r) /\ create_project(r)
  \/ Turn(r) /\ rotate_api_key_post(r)
  \/ Turn(r) /\ rotate_api_key_put(r)
  \/ Turn(r) /\ upload_sbom(r)
  \/ Turn(r) /\ findings_ready(r)
  \/ Turn(r) /\ sleep(r)
  \/ Turn(r) /\ get_findings(r)
  \/ Turn(r) /\ delete_project(r)
  \/ Turn(r) /\ dt_interface_handler_put(r)

SeqNext == \E r \in Runs : SeqStep(r)

\* runs one after another
SeqSpec == Init /\ [][SeqNext]_vars

IngressNext ==
  \/ \E o \in Buckets \X AllKeys : s3_event(o)
  \/ \E record \in Buckets \X AllKeys : enrichment_ingress_handler(record)
  \/ \E r \in Runs : deliver(r)
  \/ \E r \in Runs : Step(r)

\* the pipeline from the bucket notification to the stored findings
IngressSpec == IngressInit /\ [][IngressNext]_vars

TokenNext ==
  \E h \in Handlers :
    \/ delete_token_handler_get(h)
    \/ delete_token_handler_update(h)
    \/ create_token_handler(h)

\* two token requests for one team, served concurrently
TokenSpec == TokenInit /\ [][TokenNext]_vars

TypeOK ==
  /\ pc \in [ Runs -> { "s3_get", "get_api_key", "get_root_password",
                        "change_pwd_post", "change_pwd_put", "get_jwt",
                        "get_teams", "set_team_permissions",
                        "put_initial_api_key", "create_project",
                        "rotate_post", "rotate_put", "upload_sbom",
                        "findings_ready", "sleep", "get_findings",
                        "delete_project",
                        "s3_put", "done", "aborted", "idle" } ]
  /\ faults \in 0..MaxFaults
  /\ dtKeys \in 0..MaxKeys


(***************************************************************************)
(* Properties                                                              *)
(***************************************************************************)
Last(seq) == seq[Len(seq)]
Finished(r) == pc[r] = "done"
Aborted(r) == pc[r] = "aborted"

\* C1 : a run in which no call fails and the job becomes ready after
\* finitely many polls eventually returns success, and when it has returned
\* the bucket holds, under "findings-" + key, the findings Dependency Track
\* computed for the project the run created.
C1_FindingsStored ==
  /\ [](\A r \in Runs :
          Finished(r) =>
            s3[<< event[r].bucket, "findings-" \o event[r].key >>] =
              <<"utf-8">> \o FindingsOf(dtProjects[Last(calls[r].projects)].bom))
  /\ ( (dtMode = "honest" /\ AutomationIndex(dtTeams) # 0)
         => <>(Finished("r1") \/ faults < MaxFaults) )

C1_Witness ==
  /\ Finished("r1")
  /\ faults = MaxFaults
  /\ dtMode = "honest"
  /\ s3[<< "sboms", "findings-sbom-abc" >>] = <<"utf-8", "vulns", "sbom-abc">>

StepRank(step) ==
  CASE step = "triggered" -> 0
    [] step = "read" -> 1
    [] step = "create" -> 2
    [] step = "upload" -> 3
    [] step = "poll" -> 4
    [] step = "findings" -> 5
    [] step = "delete" -> 6
    [] step = "write" -> 7

\* C2 : the steps of a run are issued in the order read, create, upload,
\* poll, findings, delete, write; no step is issued after a later one, none
\* is skipped, and the delete request precedes the write of the findings.
C2_StepsInOrder ==
  [][ \A r \in Runs :
        \/ StepRank(phase'[r]) = StepRank(phase[r])
        \/ StepRank(phase'[r]) = StepRank(phase[r]) + 1 ]_vars

C2_Witness ==
  \E r \in Runs : Finished(r) /\ phase[r] = "write" /\ Len(calls[r].deletes) = 1


\* C3 : against a Dependency Track that answers 401 to every create-project
\* request a run rotates the key once, retries create-project once, and
\* then gives up.
C3_RetryOnceBound ==
  \A r \in Runs :
    dtMode = "always401" => calls[r].rotate <= 1 /\ calls[r].create <= 2

\* C4 : a 401 answer to upload, to a status poll or to the findings request
\* is followed by a rotation and a retry, as it is for create-project : no
\* run is ended by such a 401 without having rotated the key.
C4_RetryOnEveryCall ==
  \A r \in Runs :
    ( /\ Aborted(r)
      /\ err[r].status = 401
      /\ err[r].at \in { "create_project", "upload_sbom", "findings_ready",
                         "get_findings" } )
    => calls[r].rotate >= 1

\* C5 : when Dependency Track reports "processing" on every poll, the
\* polling of the run comes to an end.
C5_PollingTerminates ==
  (dtMode = "neverReady") => <>(Finished("r1") \/ Aborted("r1"))

\* the nine permissions of the fixed set, in the order they are granted
FixedPermissionSet ==
  << "ACCESS_MANAGEMENT", "POLICY_MANAGEMENT", "POLICY_VIOLATION_ANALYSIS",
     "PORTFOLIO_MANAGEMENT", "PROJECT_CREATION_UPLOAD", "SYSTEM_CONFIGURATION",
     "VIEW_PORTFOLIO", "VIEW_VULNERABILITY", "VULNERABILITY_ANALYSIS" >>

Unprovisioned(value) ==
  value = <<"EMPTY", 0>> \/ value = <<"ParameterNotFound", 0>>

\* the value __get_api_key hands to the caller that is on top of the stack
Received(r) ==
  CASE Head(stack[r]) \in {"create_project", "findings_ready"} -> loc'[r].key
    [] Head(stack[r]) = "rotate_api_key" -> loc'[r].old_key
    [] OTHER -> loc'[r].api_key

\* C6 : a getApiKey call that finds the key absent or EMPTY bootstraps : it
\* takes the first API key of the team named Automation, issues one grant
\* request for each of the nine permissions, stores that key and returns
\* the value it stored.
C6_Bootstrap ==
  [][ \A r \in Runs :
        /\ ( pc[r] = "get_api_key" /\ Unprovisioned(ssm[DT_API_KEY])
             /\ pc'[r] \notin {"get_api_key", "aborted"} )
           => ( pc'[r] = "get_root_password" /\ Head(stack'[r]) = "get_teams" )
        /\ ( pc[r] = "get_teams" /\ pc'[r] = "get_root_password" )
           => \E i \in 1..Len(dtTeams) :
                /\ dtTeams[i].name = "Automation"
                /\ loc'[r].boot_key = dtTeams[i].apiKeys[1]
        /\ ( pc[r] = "put_initial_api_key"
             /\ pc'[r] \notin {"put_initial_api_key", "aborted"} )
           => /\ calls[r].grants = FixedPermissionSet
              /\ ssm'[DT_API_KEY] = loc[r].boot_key
              /\ Received(r) = ssm'[DT_API_KEY] ]_vars

C6_Witness ==
  \E r \in Runs :
    /\ pc[r] = "create_project"
    /\ calls[r].grants = FixedPermissionSet
    /\ loc[r].key = ApiKey(0)
    /\ ssm[DT_API_KEY] = ApiKey(0)

\* C7 : a getApiKey call that finds a stored key returns it and changes
\* nothing else : no request to Dependency Track, no write to the Parameter
\* Store.
C7_StoredKeyReturned ==
  [][ \A r \in Runs :
        ( pc[r] = "get_api_key" /\ ~Unprovisioned(ssm[DT_API_KEY])
          /\ stack'[r] # stack[r] /\ pc'[r] # "aborted" )
        => /\ Received(r) = ssm[DT_API_KEY]
           /\ pc'[r] \notin { "get_root_password", "get_jwt", "get_teams",
                              "set_team_permissions", "put_initial_api_key",
                              "change_pwd_post", "change_pwd_put" }
              \/ Head(stack[r]) = "rotate_api_key"
           /\ UNCHANGED << ssm, s3, dtVars, pwds, calls, phase >> ]_vars

C7_Witness ==
  \E r \in Runs :
    /\ pc[r] = "upload_sbom"
    /\ loc[r].api_key = ssm[DT_API_KEY]
    /\ calls[r].grants = <<>>

\* C8 : when Dependency Track has no team named Automation, bootstrap ends
\* with "Unable to find Automation team in DT" : no grant request is issued,
\* the key parameter stays unprovisioned, and no run gets past the team
\* listing.
C8_NoAutomationTeam ==
  (\A i \in 1..Len(dtTeams) : dtTeams[i].name # "Automation")
  => /\ Unprovisioned(ssm[DT_API_KEY])
     /\ \A r \in Runs :
          /\ calls[r].grants = <<>>
          /\ calls[r].create = 0
          /\ pc[r] \in { "idle", "s3_get", "get_api_key", "get_root_password",
                         "change_pwd_post", "change_pwd_put", "get_jwt",
                         "get_teams", "aborted" }
          /\ (Aborted(r) /\ err[r].status = 200)
             => /\ err[r].at = "get_automation_team_data_from_dt"
                /\ err[r].exc = "Unable to find Automation team in DT"

C8_Witness ==
  \E r \in Runs :
    /\ Aborted(r)
    /\ err[r].at = "get_automation_team_data_from_dt"
    /\ Unprovisioned(ssm[DT_API_KEY])

\* C10 : the key a run asks Dependency Track to rotate is the key that just
\* received the 401, never a key another run has rotated in meanwhile.
C10_RotatesRejectedKey ==
  \A r \in Runs :
    (dtMode = "honest" /\ pc[r] = "rotate_post")
    => loc[r].old_key = loc[r].key


\* C9 : when a rotateApiKey call completes, the Parameter Store holds the
\* key Dependency Track issued, that key is the current key of the
\* Automation team, and the key that was rotated is no longer current.
C9_RotationInvariant ==
  [][ \A r \in Runs :
        (pc[r] = "rotate_put" /\ pc'[r] = "get_api_key")
        => /\ ssm'[DT_API_KEY] = loc[r].new_api_key
           /\ KeyIsCurrent(loc[r].new_api_key)
           /\ ~KeyIsCurrent(loc[r].old_key) ]_vars


\* C11 : with concurrent runs against an honest Dependency Track, a run whose
\* key was invalidated by another run's rotation rotates at most once and
\* retries create-project at most once; it then succeeds or aborts.
C11_OneRotationPerCall ==
  \A r \in Runs :
    dtMode = "honest" => calls[r].rotate <= 1 /\ calls[r].create <= 2


\* C12 : a getAdminPassword call of a lone run that finds the credential
\* EMPTY or absent issues one force-change-password request whose old
\* password is the default, stores the generated password, reads the
\* parameter once more and returns the generated value, which is not the
\* default; the call comes to an end.
C12_AdminRotationTerminates ==
  /\ [](pwds <= 1)
  /\ [][ \A r \in Runs :
           /\ ( pc[r] = "get_root_password"
                /\ Unprovisioned(ssm[DT_ROOT_PWD])
                /\ pc'[r] \notin {"get_root_password", "aborted"} )
              => pc'[r] = "change_pwd_post"
           /\ ( pc[r] = "change_pwd_post" /\ pc'[r] = "change_pwd_put" )
              => /\ pwds = 0
                 /\ loc'[r].new_pwd # <<"admin", 0>>
                 /\ dtPwd' = IF dtPwd = <<"admin", 0>> /\ faults' = faults
                             THEN loc'[r].new_pwd ELSE dtPwd
           /\ ( pc[r] = "change_pwd_put" /\ pc'[r] # "aborted" )
              => /\ pc'[r] = "get_root_password"
                 /\ ssm'[DT_ROOT_PWD] = loc[r].new_pwd
           /\ ( pc[r] = "get_root_password" /\ pwds = 1 /\ pc'[r] # "aborted" )
              => /\ pc'[r] = "get_jwt"
                 /\ loc'[r].root_pwd = <<"uuid", 1>>
                 /\ ssm[DT_ROOT_PWD] = <<"uuid", 1>> ]_vars
  /\ ( Unprovisioned(ssm[DT_ROOT_PWD])
       => <>( \/ Aborted("r1")
              \/ pc["r1"] = "get_jwt" /\ loc["r1"].root_pwd = <<"uuid", 1>> ) )

C12_Witness ==
  /\ pc["r1"] = "get_jwt"
  /\ pc["r2"] = "idle"
  /\ loc["r1"].root_pwd = <<"uuid", 1>>
  /\ dtPwd = <<"uuid", 1>>
  /\ pwds = 1
  /\ calls["r1"].grants = <<>>


C14_RejectedRotationFails ==
  \A r \in Runs :
    (pc[r] = "change_pwd_put" /\ faults = MaxFaults)
    => dtPwd = loc[r].new_pwd


\* C15 : once the findings have been fetched no failure of the delete step
\* ends the run : neither a failed delete request nor a failure to obtain
\* the API key for it keeps the run from writing the findings.
C15_DeleteBestEffort ==
  \A r \in Runs :
    Aborted(r)
    => /\ err[r].at # "delete_project"
       /\ ~(phase[r] = "findings" /\ err[r].at = "get_api_key")


\* C16 : a run that returns success has created exactly one project, has
\* issued exactly one delete request, for that project, and has uploaded to
\* and fetched the findings of that project, also when create-project was
\* retried after a 401; no two runs ever hold the same project.
C16_OneProjectPerRun ==
  \A r \in Runs :
    /\ Len(calls[r].projects) <= 1
    /\ Len(calls[r].deletes) <= 1
    /\ \A q \in Runs \ {r} :
         \A i \in 1..Len(calls[r].projects) :
           \A j \in 1..Len(calls[q].projects) :
             calls[r].projects[i] # calls[q].projects[j]
    /\ ( calls[r].projects # <<>> /\ ~Finished(r) /\ ~Aborted(r) )
       => /\ loc[r].project_uuid = calls[r].projects[1]
          /\ loc[r].sbom_token \in {0, calls[r].projects[1]}
          /\ calls[r].deletes \in {<<>>, calls[r].projects}
          /\ pc[r] \in {"findings_ready", "sleep", "get_findings"}
             => loc[r].sbom_token = calls[r].projects[1]
    /\ Finished(r)
       => /\ Len(calls[r].projects) = 1
          /\ calls[r].deletes = calls[r].projects

C16_Witness ==
  \E r \in Runs :
    /\ Finished(r)
    /\ calls[r].create = 2
    /\ calls[r].rotate = 1
    /\ calls[r].projects = <<2>>
    /\ calls[r].deletes = <<2>>


Redelivered == event["r1"] = event["r2"]
BothFinished == Finished("r1") /\ Finished("r2")
OwnProjects ==
  \A i \in 1..Len(calls["r1"].projects) :
    \A j \in 1..Len(calls["r2"].projects) :
      calls["r1"].projects[i] # calls["r2"].projects[j]
SameDestination ==
  s3[<< event["r1"].bucket, "findings-" \o event["r1"].key >>]
    = <<"utf-8", "vulns", event["r1"].key>>
NoProjectLeft ==
  \A r \in Runs :
    \A i \in 1..Len(calls[r].projects) :
      ~dtProjects[calls[r].projects[i]].live

C18_WriteOnlyOnSuccess ==
  \A b \in Buckets : \A k \in SbomKeys :
    /\ s3[<< b, k >>] = <<"utf-8", "bom", k>>
    /\ s3[<< b, "findings-" \o k >>] # <<>>
       <=> \E r \in Runs : Finished(r) /\ event[r] = [ bucket |-> b, key |-> k ]

C18_Witness ==
  /\ Aborted("r1")
  /\ err["r1"].at = "get_findings"
  /\ Finished("r2")
  /\ s3[<< "sboms", "findings-sbom-abc" >>] = <<>>
  /\ s3[<< "sboms", "findings-sbom-xyz" >>] # <<>>


SecretStoreSteps ==
  { "get_api_key", "get_root_password", "change_pwd_put",
    "put_initial_api_key", "rotate_put" }

\* C19 : an error of the Parameter Store other than ParameterNotFound, in
\* getApiKey, getAdminPassword or rotateApiKey, ends the run with that
\* error : nothing is stored, the operation is not tried again and the run
\* issues no further request.
C19_SecretStoreErrorFatal ==
  [][ \A r \in Runs :
        /\ ( pc[r] \in SecretStoreSteps /\ pc'[r] # pc[r] /\ faults' # faults )
           => /\ pc'[r] = "aborted"
              /\ err'[r].exc = "ClientError"
              /\ UNCHANGED << ssm, s3, dtVars, pwds, calls, phase >>
        /\ pc[r] = "aborted"
           => /\ pc'[r] = "aborted"
              /\ calls'[r] = calls[r]
              /\ phase'[r] = phase[r]
              /\ err'[r] = err[r] ]_vars

C19_Witness ==
  \E r \in Runs :
    /\ Aborted(r)
    /\ err[r] = [ at |-> "rotate_api_key", exc |-> "ClientError", status |-> 0 ]
    /\ calls[r].rotate = 1
    /\ calls[r].create = 1


\* C20 : bootstrap stores and returns a key only if every request it made
\* to Dependency Track succeeded : a run that is about to store the key has
\* had all nine permissions granted to the Automation team.
C20_BootstrapFailsOnHttpError ==
  \A r \in Runs :
    pc[r] = "put_initial_api_key"
    => \A i \in 1..Len(dtTeams) :
         dtTeams[i].uuid = loc[r].automation_team_uuid
         => \A j \in 1..Len(FixedPermissionSet) :
              FixedPermissionSet[j] \in dtTeams[i].perms


KeyCalls ==
  { "create_project", "upload_sbom", "findings_ready", "get_findings",
    "delete_project" }

\* C21 : every request made with the API key (create project, upload, each
\* status poll, the findings request, delete project) comes straight after
\* a getApiKey call of its own : a run arrives at such a request only from
\* the return of getApiKey.
C21_FetchBeforeEveryCall ==
  [][ \A r \in Runs :
        ( pc'[r] \in KeyCalls /\ pc'[r] # pc[r] )
        => pc[r] \in {"get_api_key", "put_initial_api_key"} ]_vars


\* C22 : rotateApiKey returns the new key, the very value it has stored in
\* the Parameter Store.
C22_RotateReturnsNewKey ==
  [][ \A r \in Runs :
        ( pc[r] = "rotate_put" /\ pc'[r] = "get_api_key" )
        => /\ ssm'[DT_API_KEY] = loc[r].new_api_key
           /\ rotate_api_key_result(loc[r].new_api_key) = loc[r].new_api_key
      ]_vars


\* C23 : a network error on a status poll counts as "not ready" : it never
\* ends the run, which stays in the polling step and polls again.
C23_PollSurvivesNetworkError ==
  \A r \in Runs :
    ~( /\ Aborted(r)
       /\ err[r].at = "findings_ready"
       /\ err[r].exc = "ConnectionError" )


\* C24 : every status query of a run is made with the token of the run's
\* own upload and consumes one answer of the job : an answer "processing"
\* is followed by another query, the first answer "not processing" ends the
\* polling, so k answers "processing" make k + 1 queries; the findings
\* request is issued only after the answer "not processing".
C24_PollUntilReady ==
  [][ \A r \in Runs :
        LET t == loc[r].sbom_token IN
        /\ ( pc[r] = "findings_ready" /\ pc'[r] \notin {"findings_ready", "aborted"} )
           => /\ t = calls[r].projects[1]
              /\ IF dtProjects[t].remaining = 0
                 THEN pc'[r] = "get_findings" /\ dtProjects' = dtProjects
                 ELSE /\ pc'[r] = "sleep"
                      /\ dtProjects'[t].remaining
                           = IF dtProjects[t].remaining > 0
                             THEN dtProjects[t].remaining - 1
                             ELSE dtProjects[t].remaining
        /\ ( pc[r] = "sleep" /\ pc'[r] # "sleep" )
           => pc'[r] = "findings_ready" /\ loc'[r] = loc[r]
        /\ ( pc'[r] = "get_findings" /\ pc[r] # "get_findings" )
           => pc[r] = "findings_ready" /\ dtProjects[t].remaining = 0 ]_vars

C24_Witness ==
  \E r \in Runs :
    /\ pc[r] = "get_findings"
    /\ dtMode = "honest"
    /\ dtProjects[loc[r].sbom_token].remaining = 0
    /\ \E q \in Runs \ {r} :
         /\ pc[q] = "sleep"
         /\ dtProjects[loc[q].sbom_token].remaining = MaxProcessing - 1


\* C25 : whenever no run is inside the change of the admin password, a
\* stored admin password that is not EMPTY is the password Dependency Track
\* accepts.
C25_StoredPasswordAccepted ==
  ( /\ \A r \in Runs : pc[r] \notin {"change_pwd_post", "change_pwd_put"}
    /\ ~Unprovisioned(ssm[DT_ROOT_PWD]) )
  => ssm[DT_ROOT_PWD] = dtPwd


\* the run is inside __set_initial_api_key_in_ssm or __rotate_api_key
InKeyBootstrapOrRotation(r) ==
  \/ pc[r] \in { "get_teams", "set_team_permissions", "put_initial_api_key",
                 "rotate_post", "rotate_put" }
  \/ \E i \in 1..Len(stack[r]) :
       stack[r][i] \in { "get_teams", "set_team_permissions",
                         "rotate_api_key", "rotate_post" }

\* C26 : whenever no run is inside a bootstrap or a rotation of the API
\* key, a stored key that is not EMPTY is the current key of the Automation
\* team in Dependency Track.
C26_StoredKeyAccepted ==
  ( /\ \A r \in Runs : ~InKeyBootstrapOrRotation(r)
    /\ ~Unprovisioned(ssm[DT_API_KEY]) )
  => \E i \in 1..Len(dtTeams) :
       /\ dtTeams[i].name = "Automation"
       /\ dtTeams[i].apiKeys[1] = ssm[DT_API_KEY]


\* the object keys whose first four characters are "sbom"
SbomPrefixed == { k \in AllKeys : Len(k) >= 4 /\ SubSeq(k, 1, 4) = "sbom" }

\* C27 : enrichment_ingress_handler sends one message, carrying the bucket
\* name and the key of the record, exactly for the records whose key starts
\* with "sbom"; the findings objects written by the runs therefore never
\* put a message on the queue, and no run is started for anything but an
\* SBOM, each SBOM once.
C27_IngressRoutesSboms ==
  /\ [][ \A record \in Buckets \X AllKeys :
           ( record \in records /\ record \notin records' )
           => LET body == [ n \in {"sbom.bucket.name", "sbom.s3.key"} |->
                             IF n = "sbom.bucket.name" THEN record[1]
                             ELSE record[2] ]
              IN /\ queue' \in { queue, Append(queue, body) }
                 /\ queue' # queue => record[2] \in SbomPrefixed
                 /\ ( record[2] \in SbomPrefixed /\ faults' = faults )
                    => queue' = Append(queue, body) ]_vars
  /\ [] /\ \A i \in 1..Len(queue) : queue[i]["sbom.s3.key"] \in SbomKeys
        /\ \A r \in Runs : pc[r] # "idle" => event[r].key \in SbomKeys
        /\ \A r \in Runs : \A q \in Runs \ {r} :
             ( pc[r] # "idle" /\ pc[q] # "idle" ) => event[r] # event[q]

C27_Witness ==
  /\ \A r \in Runs : Finished(r)
  /\ notified = Buckets \X AllKeys
  /\ records = {}
  /\ queue = <<>>
  /\ \A k \in SbomKeys : s3[<< "sboms", "findings-" \o k >>] # <<>>

\* the team's list has the token, at a position counted from zero
Holds(list, token) == \E i \in 1..Len(list) : list[i] = token
AtZero(list, token) == Len(list) > 0 /\ list[1] = token
\* next is the list without the element it has at the position
WithoutPosition(list, next, p) ==
  /\ Len(next) = Len(list) - 1
  /\ \A j \in 1..Len(next) : next[j] = IF j <= p THEN list[j] ELSE list[j + 1]

C29_OnlyOwnTokenRemoved ==
  \A h \in Handlers :
    handlers[h].op = "delete"
      => \A i \in 1..Len(handlers[h].removed) :
           handlers[h].removed[i] = handlers[h].token

====
